---------------------------- MODULE Spec2Model ----------------------------
(***************************************************************************)
(* RNBE weekend forecast generator (rnbe_pronostico.py).                   *)
(*                                                                         *)
(* Representation of the program's values:                                 *)
(*  - an optional value (a JSON null / Python None) is the empty tuple     *)
(*    None, a present value v is the one-element tuple Some(v);            *)
(*  - a float that is not a wind direction (temperature, wind speed, gust, *)
(*    precipitation probability, and every mean of them) is an integer     *)
(*    count of 1/Scale units, Scale being a common multiple of every       *)
(*    divisor a mean can have within the bounds, so that sum/len is exact; *)
(*  - a wind direction is a whole number of degrees; math.sin/math.cos are *)
(*    a four-digit table and math.atan2 is evaluated to the nearest whole  *)
(*    degree.  When the sine and cosine sums cancel, the float result is   *)
(*    the direction of the rounding residue, here the variable residue;    *)
(*  - a datetime.date is its proleptic ordinal (date.toordinal()), an ISO  *)
(*    date string is the tuple <<year, month, day>> and an hourly          *)
(*    timestamp "YYYY-MM-DDTHH:MM" the tuple <<year, month, day, HH, MM>>; *)
(*    string comparison is lexicographic comparison of these tuples;       *)
(*  - a rendered report is a record of its lines' fields, not a string.    *)
(***************************************************************************)
EXTENDS Integers, Sequences, FiniteSets, TLC

VARIABLES
    pc,            \* position of main(), or "call"/"ret" of a single function
    cfg,           \* main: the loaded config.json
    today,         \* main: the reference date, datetime.utcnow().date()
    gets,          \* the GET requests sent to the forecast API so far
    levels,        \* main: the loaded niveles_san_fernando.json
    sab, dom,      \* main: the target Saturday and Sunday
    feriado,       \* main: the holiday Monday, or None
    models,        \* main: the responses fetched so far
    hourly,        \* main: the merged hourly series
    ds,            \* main: the per-day results of get_day
    whatsapp_txt,  \* out/whatsapp_<tag>.txt: None until written
    tecnico_txt,   \* out/tecnico_<tag>.txt: None until written
    args,          \* the arguments of the function applied on its own
    ret,           \* its result
    residue        \* direction of the floating-point residue of a cancelled sum

vars == <<pc, cfg, today, gets, levels, sab, dom, feriado, models, hourly, ds,
          whatsapp_txt, tecnico_txt, args, ret, residue>>

---------------------------------------------------------------------------
(* Bounds of the model *)

\* largest number of configured forecast models
MaxModels == 2
\* largest number of hourly entries of a series a function is applied to
MaxLen == 2

---------------------------------------------------------------------------
(* Values *)

None == <<>>
Some(v) == <<v>>

RECURSIVE Gcd(_, _)
Gcd(a, b) == IF b = 0 THEN a ELSE Gcd(b, a % b)

RECURSIVE LcmUpTo(_)
LcmUpTo(n) == IF n <= 1 THEN 1 ELSE LET l == LcmUpTo(n - 1) IN (l * n) \div Gcd(l, n)

\* the hours of a day the modelled forecast API reports
HourAxis == <<7, 13, 15>>

Max2(a, b) == IF a >= b THEN a ELSE b

\* sub-units of one km/h, one degree Celsius, one percent
Scale == LcmUpTo(MaxModels) * LcmUpTo(Max2(MaxLen, Len(HourAxis)))

Num(n) == n * Scale

RECURSIVE sum(_)
sum(s) == IF s = <<>> THEN 0 ELSE Head(s) + sum(Tail(s))

RECURSIVE max(_)
max(s) == IF Len(s) = 1 THEN s[1] ELSE Max2(s[1], max(Tail(s)))

RECURSIVE min(_)
min(s) == IF Len(s) = 1 THEN s[1]
          ELSE LET m == min(Tail(s)) IN IF s[1] <= m THEN s[1] ELSE m

Abs(n) == IF n < 0 THEN -n ELSE n

\* the present values of series at the indices idx, in order
RECURSIVE present(_, _)
present(series, idx) ==
    IF idx = <<>> THEN <<>>
    ELSE LET v == series[Head(idx)]
         IN (IF v /= None THEN <<v[1]>> ELSE <<>>) \o present(series, Tail(idx))

Indices(s) == [i \in 1..Len(s) |-> i]

---------------------------------------------------------------------------
(* circular_mean_deg *)

TrigScale == 10000

\* round(TrigScale * sin(k degrees)) for k = 0..90
SinTable == <<
      0, 175, 349, 523, 698, 872, 1045, 1219, 1392, 1564, 1736, 1908, 2079,
      2250, 2419, 2588, 2756, 2924, 3090, 3256, 3420, 3584, 3746, 3907, 4067, 4226,
      4384, 4540, 4695, 4848, 5000, 5150, 5299, 5446, 5592, 5736, 5878, 6018, 6157,
      6293, 6428, 6561, 6691, 6820, 6947, 7071, 7193, 7314, 7431, 7547, 7660, 7771,
      7880, 7986, 8090, 8192, 8290, 8387, 8480, 8572, 8660, 8746, 8829, 8910, 8988,
      9063, 9135, 9205, 9272, 9336, 9397, 9455, 9511, 9563, 9613, 9659, 9703, 9744,
      9781, 9816, 9848, 9877, 9903, 9925, 9945, 9962, 9976, 9986, 9994, 9998, 10000 >>

Sin(d) ==
    LET a == d % 360
    IN IF a <= 90 THEN SinTable[a + 1]
       ELSE IF a <= 180 THEN SinTable[180 - a + 1]
       ELSE IF a <= 270 THEN -SinTable[a - 180 + 1]
       ELSE -SinTable[360 - a + 1]

Cos(d) == Sin(d + 90)

\* (math.degrees(math.atan2(y, x)) + 360.0) % 360.0, to the nearest degree,
\* for a vector (x, y) that is not the residue of a cancelled sum
Atan2Deg(y, x) ==
    LET cross(k) == Cos(k) * y - Sin(k) * x
        q  == IF x > 0 /\ y >= 0 THEN 0
              ELSE IF x <= 0 /\ y > 0 THEN 90
              ELSE IF x < 0 /\ y <= 0 THEN 180
              ELSE 270
        k0 == CHOOSE k \in q..(q + 89) : cross(k) >= 0 /\ cross(k + 1) < 0
    IN IF cross(k0) <= -cross(k0 + 1) THEN k0 ELSE (k0 + 1) % 360

circular_mean_deg(degs) ==
    LET sin_sum == sum([i \in 1..Len(degs) |-> Sin(degs[i])])
        cos_sum == sum([i \in 1..Len(degs) |-> Cos(degs[i])])
    IN IF Abs(sin_sum) <= Len(degs) /\ Abs(cos_sum) <= Len(degs)
       THEN residue
       ELSE Atan2Deg(sin_sum, cos_sum)

COMPASS_16 == <<"N","NNE","NE","ENE","E","ESE","SE","SSE",
                "S","SSO","SO","OSO","O","ONO","NO","NNO">>

\* ix = int((deg/22.5)+0.5) % 16
deg_to_compass_es(deg) == COMPASS_16[(((4 * deg + 45) \div 90) % 16) + 1]

---------------------------------------------------------------------------
(* Window statistics *)

SlotStats(s, g, d, t) ==
    [speed_avg |-> s, gust_max |-> g, dir_avg_deg |-> d, dir_avg_txt |-> t]

\* hh = int(t[11:13])
HourOf(t) == t[4]

RECURSIVE window_from(_, _, _, _)
window_from(times, i, h0, h1) ==
    IF i > Len(times) THEN <<>>
    ELSE (IF h0 <= HourOf(times[i]) /\ HourOf(times[i]) < h1 THEN <<i>> ELSE <<>>)
         \o window_from(times, i + 1, h0, h1)

\* window_idx with the window closed at h1: h0 <= hh <= h1
window_idx_closed(times, h0, h1) == window_from(times, 1, h0, h1 + 1)

window_idx(times, h0, h1) == window_from(times, 1, h0, h1)

stats_for_window(h, h0, h1) ==
    LET idx    == window_idx(h.time, h0, h1)
        speeds == present(h.wind_speed_10m, idx)
        gusts  == present(h.wind_gusts_10m, idx)
        dirs   == present(h.wind_direction_10m, idx)
        s_avg  == IF speeds /= <<>> THEN sum(speeds) \div Len(speeds) ELSE 0
        g_max  == IF gusts /= <<>> THEN max(gusts) ELSE 0
        d_avg  == IF dirs /= <<>> THEN circular_mean_deg(dirs) ELSE 0
    IN IF idx = <<>> THEN SlotStats(0, 0, 0, "")
       ELSE SlotStats(s_avg, g_max, d_avg,
                      IF dirs /= <<>> THEN deg_to_compass_es(d_avg) ELSE "")

get_slots(h, breve) ==
    IF breve
    THEN [manana |-> stats_for_window(h, 6, 12), tarde |-> stats_for_window(h, 12, 20)]
    ELSE [manana   |-> stats_for_window(h, 6, 11),
          mediodia |-> stats_for_window(h, 11, 14),
          tarde    |-> stats_for_window(h, 14, 20)]

---------------------------------------------------------------------------
(* Model merger and day slicer *)

fields == <<"temperature_2m", "wind_speed_10m", "wind_gusts_10m",
            "wind_direction_10m", "precipitation_probability">>

\* aggregate_models dividing by the number of models, absent values counted
aggregate_models_all(models_data) ==
    LET base  == models_data[1].hourly
        times == base.time
        vals(f, i) == present([m \in 1..Len(models_data) |-> models_data[m].hourly[f][i]],
                              Indices(models_data))
        merged(f, i) ==
            IF f = "wind_direction_10m"
            THEN (IF vals(f, i) /= <<>> THEN Some(circular_mean_deg(vals(f, i))) ELSE None)
            ELSE (IF vals(f, i) /= <<>>
                  THEN Some(sum(vals(f, i)) \div Len(models_data)) ELSE None)
    IN [k \in {"time"} \cup {fields[j] : j \in 1..Len(fields)} |->
           IF k = "time" THEN times ELSE [i \in 1..Len(times) |-> merged(k, i)]]

aggregate_models(models_data) ==
    LET base  == models_data[1].hourly
        times == base.time
        vals(f, i) == present([m \in 1..Len(models_data) |-> models_data[m].hourly[f][i]],
                              Indices(models_data))
        merged(f, i) ==
            IF f = "wind_direction_10m"
            THEN (IF vals(f, i) /= <<>> THEN Some(circular_mean_deg(vals(f, i))) ELSE None)
            ELSE (IF vals(f, i) /= <<>>
                  THEN Some(sum(vals(f, i)) \div Len(vals(f, i))) ELSE None)
    IN [k \in {"time"} \cup {fields[j] : j \in 1..Len(fields)} |->
           IF k = "time" THEN times ELSE [i \in 1..Len(times) |-> merged(k, i)]]

\* lexicographic <= of two strings of the same format
RECURSIVE LexLeq(_, _)
LexLeq(a, b) ==
    IF a = <<>> THEN TRUE
    ELSE IF b = <<>> THEN FALSE
    ELSE IF a[1] /= b[1] THEN a[1] < b[1]
    ELSE LexLeq(Tail(a), Tail(b))

\* d.isoformat(), for the dates of February and March 2025
isoformat(d) == IF d <= 739310 THEN <<2025, 2, d - 739282>> ELSE <<2025, 3, d - 739310>>

\* d.weekday(): Monday is 0
weekday(d) == (d + 6) % 7

RECURSIVE slice_from(_, _, _, _)
slice_from(times, i, start, end) ==
    IF i > Len(times) THEN <<>>
    ELSE (IF LexLeq(start, times[i]) /\ LexLeq(times[i], end) THEN <<i>> ELSE <<>>)
         \o slice_from(times, i + 1, start, end)

\* day_slice with the first minute of the day left out: start < t <= end
day_slice_open(h, d) ==
    LET start == isoformat(d) \o <<0, 1>>
        end   == isoformat(d) \o <<23, 59>>
        idx   == slice_from(h.time, 1, start, end)
    IN [k \in {"time"} \cup {fields[j] : j \in 1..Len(fields)} |->
           [j \in 1..Len(idx) |-> h[k][idx[j]]]]

day_slice(h, d) ==
    LET start == isoformat(d) \o <<0, 0>>
        end   == isoformat(d) \o <<23, 59>>
        idx   == slice_from(h.time, 1, start, end)
    IN [k \in {"time"} \cup {fields[j] : j \in 1..Len(fields)} |->
           [j \in 1..Len(idx) |-> h[k][idx[j]]]]

---------------------------------------------------------------------------
(* Risk classifier *)

\* semaforo with the green rain limit included: prob <= 50
semaforo_rain_le(h, thr) ==
    LET slots    == get_slots(h, TRUE)
        sust_max == Max2(slots.manana.speed_avg, slots.tarde.speed_avg)
        gust_max == Max2(slots.manana.gust_max, slots.tarde.gust_max)
        probs    == present(h.precipitation_probability,
                            Indices(h.precipitation_probability))
        prob     == max(IF probs /= <<>> THEN probs ELSE <<0>>)
    IN IF sust_max <= thr.green_max_sust /\ gust_max <= thr.green_max_gust
          /\ prob <= Num(50)
       THEN "verde"
       ELSE IF sust_max <= thr.yellow_max_sust /\ gust_max <= thr.yellow_max_gust
               /\ prob < Num(70)
       THEN "amarillo"
       ELSE "rojo"

\* semaforo taking an all-absent rain series for certain rain (100)
semaforo_no_rain_data(h, thr) ==
    LET slots    == get_slots(h, TRUE)
        sust_max == Max2(slots.manana.speed_avg, slots.tarde.speed_avg)
        gust_max == Max2(slots.manana.gust_max, slots.tarde.gust_max)
        probs    == present(h.precipitation_probability,
                            Indices(h.precipitation_probability))
        prob     == max(IF probs /= <<>> THEN probs ELSE <<Num(100)>>)
    IN IF sust_max <= thr.green_max_sust /\ gust_max <= thr.green_max_gust
          /\ prob < Num(50)
       THEN "verde"
       ELSE IF sust_max <= thr.yellow_max_sust /\ gust_max <= thr.yellow_max_gust
               /\ prob < Num(70)
       THEN "amarillo"
       ELSE "rojo"

semaforo(h, thr) ==
    LET slots    == get_slots(h, TRUE)
        sust_max == Max2(slots.manana.speed_avg, slots.tarde.speed_avg)
        gust_max == Max2(slots.manana.gust_max, slots.tarde.gust_max)
        probs    == present(h.precipitation_probability,
                            Indices(h.precipitation_probability))
        prob     == max(IF probs /= <<>> THEN probs ELSE <<0>>)
    IN IF sust_max <= thr.green_max_sust /\ gust_max <= thr.green_max_gust
          /\ prob < Num(50)
       THEN "verde"
       ELSE IF sust_max <= thr.yellow_max_sust /\ gust_max <= thr.yellow_max_gust
               /\ prob < Num(70)
       THEN "amarillo"
       ELSE "rojo"

---------------------------------------------------------------------------
(* Report formatter *)

\* int(round(x)) and the format ".0f": round half to even, to a whole number
r0(x) ==
    LET q == x \div Scale
        r == x % Scale
    IN IF 2 * r < Scale THEN q
       ELSE IF 2 * r > Scale THEN q + 1
       ELSE IF q % 2 = 0 THEN q ELSE q + 1

\* float(f"{x:.1f}"): round half to even, to a whole number of tenths
round1(x) ==
    LET q == (10 * x) \div Scale
        r == (10 * x) % Scale
    IN IF 2 * r < Scale THEN q
       ELSE IF 2 * r > Scale THEN q + 1
       ELSE IF q % 2 = 0 THEN q ELSE q + 1

\* "<min>-<max> C", or "__-__ C" when every temperature is absent
temp_range(h) ==
    LET vals == present(h.temperature_2m, Indices(h.temperature_2m))
    IN IF vals /= <<>> THEN <<r0(min(vals)), r0(max(vals))>> ELSE <<"__", "__">>

precip_text(h) ==
    LET probs == present(h.precipitation_probability,
                         Indices(h.precipitation_probability))
    IN IF probs = <<>> THEN ""
       ELSE IF max(probs) >= Num(60) THEN "Probables lluvias/chaparrones"
       ELSE IF max(probs) >= Num(30) THEN "Alguna chance de chaparrones"
       ELSE "Sin lluvias relevantes"

\* Python truth value of levels.get(...): None and {} are false
truthy(river) == DOMAIN river /= {}

\* slots.get('mediodia', slots['manana'])
mediodia_or_manana(slots) ==
    IF "mediodia" \in DOMAIN slots THEN slots.mediodia ELSE slots.manana

\* the river line of fmt_whatsapp with minimum and maximum exchanged
whatsapp_rio_swapped(river) ==
    IF truthy(river)
    THEN [min |-> river.max, t_min |-> river.t_max,
          max |-> river.min, t_max |-> river.t_min]
    ELSE [min |-> "__", t_min |-> "__:__", max |-> "__", t_max |-> "__:__"]

\* the river line of fmt_whatsapp
whatsapp_rio(river) ==
    IF truthy(river)
    THEN [min |-> river.min, t_min |-> river.t_min,
          max |-> river.max, t_max |-> river.t_max]
    ELSE [min |-> "__", t_min |-> "__:__", max |-> "__", t_max |-> "__:__"]

\* the river table of fmt_tecnico, or its no-data sentence
tecnico_rio(river) ==
    IF truthy(river)
    THEN [filas |-> <<[hora |-> river.t_min, nivel |-> river.min, que |-> "minima"],
                      [hora |-> river.t_max, nivel |-> river.max, que |-> "maxima"]>>,
          texto |-> ""]
    ELSE [filas |-> <<>>,
          texto |-> "_Sin datos de rio cargados (use niveles_san_fernando.json)._"]

fmt_whatsapp(day_name, sem, temp, slots, lluvia, river) ==
    LET line(franja, s, rot) ==
            [franja |-> franja, vel |-> r0(s.speed_avg), raf |-> r0(s.gust_max),
             dir |-> s.dir_avg_txt, rot |-> rot]
        prev == mediodia_or_manana(slots)
    IN [dia    |-> day_name,
        sem    |-> sem,
        temp   |-> temp,
        lluvia |-> IF lluvia /= "" THEN <<lluvia>> ELSE <<>>,
        viento |->
            <<line("Manana", slots.manana, <<>>)>>
            \o (IF "mediodia" \in DOMAIN slots
                THEN <<line("Mediodia", slots.mediodia,
                            <<slots.manana.dir_avg_txt, slots.mediodia.dir_avg_txt>>)>>
                ELSE <<>>)
            \o <<line("Tarde", slots.tarde,
                      <<prev.dir_avg_txt, slots.tarde.dir_avg_txt>>)>>,
        rotacion |->
            IF "mediodia" \in DOMAIN slots
            THEN <<slots.manana.dir_avg_txt, slots.mediodia.dir_avg_txt,
                   slots.tarde.dir_avg_txt>>
            ELSE <<slots.manana.dir_avg_txt, slots.tarde.dir_avg_txt>>,
        rio |-> whatsapp_rio(river)]

\* the technical note with the gust limit excluded: gust_max > 30
nota_tecnica_gt(slots) ==
    LET mid      == mediodia_or_manana(slots)
        gust_max == max(<<slots.manana.gust_max, mid.gust_max, slots.tarde.gust_max>>)
    IN IF (\E d \in {slots.manana.dir_avg_txt, mid.dir_avg_txt, slots.tarde.dir_avg_txt} :
              d \in {"SE", "SSE"})
          /\ gust_max > Num(30)
       THEN "Posible sudestada por la tarde (SE) con aumento del nivel y deriva."
       ELSE "Rotacion y rafagas dentro de parametros habituales."

\* the technical note of fmt_tecnico
nota_tecnica(slots) ==
    LET mid      == mediodia_or_manana(slots)
        gust_max == max(<<slots.manana.gust_max, mid.gust_max, slots.tarde.gust_max>>)
    IN IF (\E d \in {slots.manana.dir_avg_txt, mid.dir_avg_txt, slots.tarde.dir_avg_txt} :
              d \in {"SE", "SSE"})
          /\ gust_max >= Num(30)
       THEN "Posible sudestada por la tarde (SE) con aumento del nivel y deriva."
       ELSE "Rotacion y rafagas dentro de parametros habituales."

fmt_tecnico(day_name, sem, temp, cond, slots, river) ==
    LET row(franja, s, rot) ==
            [franja |-> franja, vel |-> round1(s.speed_avg), raf |-> round1(s.gust_max),
             dir |-> s.dir_avg_txt, rot |-> rot]
    IN [dia    |-> day_name,
        sem    |-> sem,
        temp   |-> temp,
        cond   |-> IF cond /= "" THEN cond ELSE "-",
        viento |->
            IF "mediodia" \in DOMAIN slots
            THEN <<row("Manana", slots.manana, <<>>),
                   row("Mediodia", slots.mediodia,
                       <<slots.manana.dir_avg_txt, slots.mediodia.dir_avg_txt>>),
                   row("Tarde", slots.tarde,
                       <<slots.mediodia.dir_avg_txt, slots.tarde.dir_avg_txt>>)>>
            ELSE <<row("Manana", slots.manana, <<>>),
                   row("Tarde", slots.tarde,
                       <<slots.manana.dir_avg_txt, slots.tarde.dir_avg_txt>>)>>,
        rosa |->
            IF "mediodia" \in DOMAIN slots
            THEN <<slots.manana.dir_avg_txt, slots.mediodia.dir_avg_txt,
                   slots.tarde.dir_avg_txt>>
            ELSE <<slots.manana.dir_avg_txt, slots.tarde.dir_avg_txt>>,
        nota |-> nota_tecnica(slots),
        rio  |-> tecnico_rio(river)]

---------------------------------------------------------------------------
(* Inputs of main(): config.json, niveles_san_fernando.json, the API *)

ModelNames == <<"gfs_seamless", "icon_seamless", "ecmwf_ifs04", "gem_seamless">>

\* cfg["models"]: the first n model names, n = 0..MaxModels
ModelLists == {SubSeq(ModelNames, 1, n) : n \in 0..MaxModels}

\* cfg["semaforo_thresholds"]
Thresholds ==
    {[green_max_sust |-> Num(15), green_max_gust |-> Num(20),
      yellow_max_sust |-> Num(20), yellow_max_gust |-> Num(25)],
     [green_max_sust |-> Num(12), green_max_gust |-> Num(30),
      yellow_max_sust |-> Num(25), yellow_max_gust |-> Num(40)]}

\* cfg["feriados"]: ISO date strings
FeriadoLists == {{}, {<<2025, 3, 3>>}, {<<2025, 3, 10>>, <<2025, 4, 2>>}}

\* the reference dates: Monday 2025-02-24 to Sunday 2025-03-02
Todays == 739306..739312

Reading(lo, tlo, hi, thi) == [min |-> lo, t_min |-> tlo, max |-> hi, t_max |-> thi]

\* niveles_san_fernando.json: no file, or a table keyed by ISO date
LevelTables ==
    {<<>>,
     [k \in {<<2025, 3, 1>>} |-> Reading("0.60", "07:30", "1.10", "14:10")],
     [k \in {<<2025, 3, 2>>, <<2025, 3, 3>>, <<2025, 3, 8>>} |->
         IF k = <<2025, 3, 8>> THEN <<>>
         ELSE Reading("0.85", "06:40", "1.95", "17:20")]}

Cell(t, s, g, d, p) ==
    [temperature_2m |-> t, wind_speed_10m |-> s, wind_gusts_10m |-> g,
     wind_direction_10m |-> d, precipitation_probability |-> p]

\* what one forecast model reports for the hours of HourAxis, every day alike
Profiles ==
    {<<Cell(Some(Num(18)), Some(Num(10)), Some(Num(15)), Some(0),   Some(Num(20))),
       Cell(Some(Num(22)), Some(Num(12)), Some(Num(18)), Some(45),  Some(Num(20))),
       Cell(Some(Num(20)), Some(Num(14)), Some(Num(20)), Some(90),  Some(Num(30)))>>,
     <<Cell(Some(Num(12)), Some(Num(22)), Some(Num(30)), Some(135), Some(Num(60))),
       Cell(Some(Num(13)), Some(Num(26)), Some(Num(36)), Some(150), Some(Num(80))),
       Cell(Some(Num(12)), Some(Num(28)), Some(Num(40)), Some(160), None)>>,
     <<Cell(None, None, None, None, None),
       Cell(None, Some(Num(17)), None, None, None),
       Cell(None, None, None, None, None)>>}

\* the response's hourly object: the hours of HourAxis of every date start..end
Response(start, end, profile) ==
    LET n == (end - start + 1) * Len(HourAxis)
        dayOf(i)  == start + ((i - 1) \div Len(HourAxis))
        slotOf(i) == ((i - 1) % Len(HourAxis)) + 1
    IN [hourly |->
         [k \in {"time"} \cup {fields[j] : j \in 1..Len(fields)} |->
            [i \in 1..n |->
               IF k = "time" THEN isoformat(dayOf(i)) \o <<HourAxis[slotOf(i)], 0>>
               ELSE profile[slotOf(i)][k]]]]

---------------------------------------------------------------------------
(* main() *)

\* next_weekend taking the Saturday strictly after the reference date
next_weekend_after(base) ==
    LET dow == weekday(base)
        days_until_sat == ((4 - dow) % 7) + 1
        sat == base + days_until_sat
        sun == sat + 1
    IN <<sat, sun>>

next_weekend(base) ==
    LET dow == weekday(base)
        days_until_sat == (5 - dow) % 7
        sat == base + days_until_sat
        sun == sat + 1
    IN <<sat, sun>>

\* the local function get_day of main
get_day(d) ==
    LET h == day_slice(hourly, d)
    IN [h     |-> h,
        sem   |-> semaforo(h, cfg.semaforo_thresholds),
        temp  |-> temp_range(h),
        cond  |-> precip_text(h),
        sb    |-> get_slots(h, TRUE),
        st    |-> get_slots(h, FALSE),
        river |-> IF isoformat(d) \in DOMAIN levels THEN levels[isoformat(d)] ELSE None]

\* d.day
day(d) == isoformat(d)[3]

\* the slot statistics main hands to fmt_whatsapp
whatsapp_slots(dd) == dd.st

\* the slot statistics main hands to fmt_tecnico
tecnico_slots(dd) == dd.st

whatsapp_section(name, d, dd) ==
    fmt_whatsapp(<<name, day(d)>>, dd.sem, dd.temp, whatsapp_slots(dd), dd.cond, dd.river)

tecnico_section(name, d, dd) ==
    fmt_tecnico(<<name, day(d)>>, dd.sem, dd.temp, dd.cond, tecnico_slots(dd), dd.river)

\* the text written to out/whatsapp_<tag>.txt
whatsapp_doc ==
    [tag |-> isoformat(sab),
     secciones |->
        <<whatsapp_section("Sabado", sab, ds.sab), whatsapp_section("Domingo", dom, ds.dom)>>
        \o (IF feriado /= None
            THEN <<whatsapp_section("Lunes", feriado[1], ds.fer)>> ELSE <<>>)]

\* the text written to out/tecnico_<tag>.txt
tecnico_doc ==
    [tag |-> isoformat(sab),
     cobertura |-> <<"Sabado", "Domingo">>
                   \o (IF feriado /= None THEN <<"Lunes", day(feriado[1])>> ELSE <<>>),
     secciones |->
        <<tecnico_section("Sabado", sab, ds.sab), tecnico_section("Domingo", dom, ds.dom)>>
        \o (IF feriado /= None
            THEN <<tecnico_section("Lunes", feriado[1], ds.fer)>> ELSE <<>>)]

Init ==
    /\ pc = "load_config"
    /\ cfg = None /\ today = 0 /\ gets = <<>> /\ levels = <<>>
    /\ sab = 0 /\ dom = 0 /\ feriado = None
    /\ models = <<>> /\ hourly = None /\ ds = None
    /\ whatsapp_txt = None /\ tecnico_txt = None
    /\ args = None /\ ret = None /\ residue = 0

\* cfg = load_config()
LoadConfig ==
    /\ pc = "load_config"
    /\ \E ms \in ModelLists, thr \in Thresholds, fer \in FeriadoLists :
          \/ cfg' = [timezone |-> "America/Argentina/Buenos_Aires",
                     lat |-> -3435, lon |-> -5880, models |-> ms,
                     semaforo_thresholds |-> thr, feriados |-> fer]
          \/ /\ fer = {}
             /\ cfg' = [timezone |-> "America/Argentina/Buenos_Aires",
                        lat |-> -3435, lon |-> -5880, models |-> ms,
                        semaforo_thresholds |-> thr]
    /\ pc' = "load_levels"
    /\ UNCHANGED <<today, gets, levels, sab, dom, feriado, models, hourly, ds,
                   whatsapp_txt, tecnico_txt, args, ret, residue>>

\* config.json is missing or is not JSON: open/json.load raises
ConfigError ==
    /\ pc = "load_config"
    /\ pc' = "aborted"
    /\ UNCHANGED <<cfg, today, gets, levels, sab, dom, feriado, models, hourly, ds,
                   whatsapp_txt, tecnico_txt, args, ret, residue>>

\* levels = load_levels(): {} when the file does not exist
LoadLevels ==
    /\ pc = "load_levels"
    /\ levels' \in LevelTables
    /\ pc' = "weekend"
    /\ UNCHANGED <<cfg, today, gets, sab, dom, feriado, models, hourly, ds,
                   whatsapp_txt, tecnico_txt, args, ret, residue>>

\* niveles_san_fernando.json exists and is not JSON: json.load raises
LevelsError ==
    /\ pc = "load_levels"
    /\ pc' = "aborted"
    /\ UNCHANGED <<cfg, today, gets, levels, sab, dom, feriado, models, hourly, ds,
                   whatsapp_txt, tecnico_txt, args, ret, residue>>

\* today, sab, dom, feriado (lines 217 to 227)
Weekend ==
    /\ pc = "weekend"
    /\ \E t \in Todays :
          LET we == next_weekend(t)
              monday == we[1] + 2
              feriados == IF "feriados" \in DOMAIN cfg THEN cfg.feriados ELSE {}
          IN /\ today' = t
             /\ sab' = we[1]
             /\ dom' = we[2]
             /\ feriado' = IF isoformat(monday) \in feriados THEN Some(monday) ELSE None
    /\ pc' = "fetch"
    /\ UNCHANGED <<cfg, gets, levels, models, hourly, ds,
                   whatsapp_txt, tecnico_txt, args, ret, residue>>

\* feriado or dom
last_day == IF feriado /= None THEN feriado[1] ELSE dom

\* the request of fetch_open_meteo for the next configured model, with the
\* outcome of requests.get and raise_for_status
next_get(status) ==
    [latitude |-> cfg.lat, longitude |-> cfg.lon, timezone |-> cfg.timezone,
     models |-> cfg.models[Len(models) + 1],
     start_date |-> isoformat(sab), end_date |-> isoformat(last_day),
     status |-> status]

\* one turn of the loop over cfg["models"]: fetch_open_meteo returns r.json()
Fetch ==
    /\ pc = "fetch"
    /\ Len(models) < Len(cfg.models)
    /\ gets' = Append(gets, next_get("ok"))
    /\ \E p \in Profiles : models' = Append(models, Response(sab, last_day, p))
    /\ UNCHANGED <<pc, cfg, today, levels, sab, dom, feriado, hourly, ds,
                   whatsapp_txt, tecnico_txt, args, ret, residue>>

\* a failed fetch swallowed: the run goes on with an empty response
FetchError_degrade ==
    /\ pc = "fetch"
    /\ Len(models) < Len(cfg.models)
    /\ gets' = Append(gets, next_get("error"))
    /\ models' = Append(models, Response(sab, last_day,
                            [i \in 1..Len(HourAxis) |-> Cell(None, None, None, None, None)]))
    /\ UNCHANGED <<pc, cfg, today, levels, sab, dom, feriado, hourly, ds,
                   whatsapp_txt, tecnico_txt, args, ret, residue>>

\* requests.get times out, or raise_for_status raises
FetchError ==
    /\ pc = "fetch"
    /\ Len(models) < Len(cfg.models)
    /\ gets' = Append(gets, next_get("error"))
    /\ pc' = "aborted"
    /\ UNCHANGED <<cfg, today, levels, sab, dom, feriado, models, hourly, ds,
                   whatsapp_txt, tecnico_txt, args, ret, residue>>

\* hourly = aggregate_models(models)
Aggregate ==
    /\ pc = "fetch"
    /\ Len(models) = Len(cfg.models)
    /\ models /= <<>>
    /\ hourly' = aggregate_models(models)
    /\ pc' = "days"
    /\ UNCHANGED <<cfg, today, gets, levels, sab, dom, feriado, models, ds,
                   whatsapp_txt, tecnico_txt, args, ret, residue>>

\* cfg["models"] is empty: models_data[0] raises IndexError
AggregateError ==
    /\ pc = "fetch"
    /\ Len(models) = Len(cfg.models)
    /\ models = <<>>
    /\ pc' = "aborted"
    /\ UNCHANGED <<cfg, today, gets, levels, sab, dom, feriado, models, hourly, ds,
                   whatsapp_txt, tecnico_txt, args, ret, residue>>

\* ds = {"sab": ..., "dom": ...}; ds["fer"] when there is a holiday
GetDays ==
    /\ pc = "days"
    /\ ds' = IF feriado /= None
             THEN [sab |-> get_day(sab), dom |-> get_day(dom), fer |-> get_day(feriado[1])]
             ELSE [sab |-> get_day(sab), dom |-> get_day(dom)]
    /\ pc' = "whatsapp"
    /\ UNCHANGED <<cfg, today, gets, levels, sab, dom, feriado, models, hourly,
                   whatsapp_txt, tecnico_txt, args, ret, residue>>

\* lines 253 to 264
WriteWhatsapp ==
    /\ pc = "whatsapp"
    /\ whatsapp_txt' = Some(whatsapp_doc)
    /\ pc' = "tecnico"
    /\ UNCHANGED <<cfg, today, gets, levels, sab, dom, feriado, models, hourly, ds,
                   tecnico_txt, args, ret, residue>>

\* lines 266 to 280
WriteTecnico ==
    /\ pc = "tecnico"
    /\ tecnico_txt' = Some(tecnico_doc)
    /\ pc' = "done"
    /\ UNCHANGED <<cfg, today, gets, levels, sab, dom, feriado, models, hourly, ds,
                   whatsapp_txt, args, ret, residue>>

Next ==
    \/ LoadConfig \/ ConfigError \/ LoadLevels \/ LevelsError \/ Weekend
    \/ Fetch \/ FetchError \/ Aggregate \/ AggregateError
    \/ GetDays \/ WriteWhatsapp \/ WriteTecnico

Spec == Init /\ [][Next]_vars

---------------------------------------------------------------------------
(* Single functions applied to bounded inputs *)

\* main() is not running
Idle ==
    /\ cfg = None /\ today = 0 /\ gets = <<>> /\ levels = <<>>
    /\ sab = 0 /\ dom = 0 /\ feriado = None
    /\ models = <<>> /\ hourly = None /\ ds = None
    /\ whatsapp_txt = None /\ tecnico_txt = None

main_vars == <<cfg, today, gets, levels, sab, dom, feriado, models, hourly, ds,
               whatsapp_txt, tecnico_txt>>

RECURSIVE SortedSeq(_)
SortedSeq(S) ==
    IF S = {} THEN <<>>
    ELSE LET m == CHOOSE x \in S : \A y \in S : x <= y
         IN <<m>> \o SortedSeq(S \ {m})

\* the increasing sequences of at most MaxLen of the hours H
HourSeqs(H) == {SortedSeq(S) : S \in {T \in SUBSET H : Cardinality(T) <= MaxLen}}

\* the series of date d with the hours hs and the cells c
Series(d, hs, c) ==
    [k \in {"time"} \cup {fields[j] : j \in 1..Len(fields)} |->
        [i \in 1..Len(hs) |->
            IF k = "time" THEN isoformat(d) \o <<hs[i], 0>> ELSE c[i][k]]]

(* semaforo *)

SemaforoHours == {5, 6, 12, 20}

SemaforoCells ==
    {Cell(None, s, g, None, p) :
        s \in {None, Some(Num(10)), Some(Num(22))},
        g \in {None, Some(Num(22)), Some(Num(45))},
        p \in {None, Some(Num(40)), Some(Num(50)), Some(Num(70))}}

SemaforoThresholds ==
    {[green_max_sust |-> Num(15), green_max_gust |-> Num(20),
      yellow_max_sust |-> Num(20), yellow_max_gust |-> Num(25)],
     [green_max_sust |-> 0, green_max_gust |-> 0,
      yellow_max_sust |-> Num(25), yellow_max_gust |-> Num(45)],
     [green_max_sust |-> -1, green_max_gust |-> Num(20),
      yellow_max_sust |-> Num(20), yellow_max_gust |-> Num(25)]}

InitSemaforo ==
    /\ Idle
    /\ pc = "call"
    /\ \E hs \in HourSeqs(SemaforoHours), thr \in SemaforoThresholds :
          \E c \in [1..Len(hs) -> SemaforoCells] :
             args = [h |-> Series(739311, hs, c), thr |-> thr]
    /\ ret = None
    /\ residue = 0

CallSemaforo ==
    /\ pc = "call"
    /\ ret' = semaforo(args.h, args.thr)
    /\ pc' = "ret"
    /\ UNCHANGED <<main_vars, args, residue>>

SpecSemaforo == InitSemaforo /\ [][CallSemaforo]_vars

(* stats_for_window *)

WindowHours == {5, 6, 11, 14}

WindowCells ==
    {Cell(None, s, g, d, None) :
        s \in {None, Some(Num(10)), Some(Num(22))},
        g \in {None, Some(Num(22))},
        d \in {None, Some(90), Some(270)}}

Windows == {<<6, 12>>, <<6, 11>>, <<11, 14>>, <<14, 20>>}

InitWindow ==
    /\ Idle
    /\ pc = "call"
    /\ \E hs \in HourSeqs(WindowHours), w \in Windows :
          \E c \in [1..Len(hs) -> WindowCells] :
             args = [h |-> Series(739311, hs, c), h0 |-> w[1], h1 |-> w[2]]
    /\ ret = None
    /\ residue \in {0, 180}

CallWindow ==
    /\ pc = "call"
    /\ ret' = stats_for_window(args.h, args.h0, args.h1)
    /\ pc' = "ret"
    /\ UNCHANGED <<main_vars, args, residue>>

SpecWindow == InitWindow /\ [][CallWindow]_vars

(* aggregate_models *)

MergeAxis == <<7, 13>>

MergeCells ==
    {Cell(None, None, None, None, None),
     Cell(Some(Num(18)), Some(Num(10)), Some(Num(15)), Some(0), Some(Num(20))),
     Cell(Some(Num(12)), Some(Num(30)), Some(Num(45)), Some(360), Some(Num(80))),
     Cell(None, Some(Num(22)), None, Some(180), None),
     Cell(Some(Num(20)), None, Some(Num(30)), None, Some(Num(40))),
     Cell(None, None, None, Some(359), None),
     Cell(None, None, None, Some(90), Some(0)),
     Cell(Some(Num(25)), Some(0), Some(0), Some(270), Some(Num(100)))}

InitMerge ==
    /\ Idle
    /\ pc = "call"
    /\ \E n \in 1..MaxModels :
          \E c \in [1..n -> [1..Len(MergeAxis) -> MergeCells]] :
             args = [models_data |->
                        [m \in 1..n |-> [hourly |-> Series(739311, MergeAxis, c[m])]]]
    /\ ret = None
    /\ residue \in {90, 270}

CallMerge ==
    /\ pc = "call"
    /\ ret' = aggregate_models(args.models_data)
    /\ pc' = "ret"
    /\ UNCHANGED <<main_vars, args, residue>>

SpecMerge == InitMerge /\ [][CallMerge]_vars

(* day_slice *)

\* 2025-02-28 to 2025-03-02
SliceDates == 739310..739312
SliceHours == {0, 12, 23}

\* the series with the timestamps T, in increasing order; every value tells its
\* position in the series, and every second speed is absent
SliceSeries(T) ==
    LET ts == SortedSeq(T)
        at(i) == isoformat(ts[i] \div 100) \o <<ts[i] % 100, 0>>
    IN [k \in {"time"} \cup {fields[j] : j \in 1..Len(fields)} |->
          [i \in 1..Len(ts) |->
             IF k = "time" THEN at(i)
             ELSE IF k = "wind_speed_10m" /\ i % 2 = 0 THEN None
             ELSE IF k = "wind_direction_10m" THEN Some(10 * i)
             ELSE Some(Num(i))]]

InitSlice ==
    /\ Idle
    /\ pc = "call"
    /\ \E T \in SUBSET {100 * d + hh : d \in SliceDates, hh \in SliceHours},
          d \in SliceDates \cup {739313} :
             args = [hourly |-> SliceSeries(T), d |-> d]
    /\ ret = None
    /\ residue = 0

CallSlice ==
    /\ pc = "call"
    /\ ret' = day_slice(args.hourly, args.d)
    /\ pc' = "ret"
    /\ UNCHANGED <<main_vars, args, residue>>

SpecSlice == InitSlice /\ [][CallSlice]_vars

(* fmt_whatsapp and fmt_tecnico *)

FormatHours == {7, 12, 15}

FormatCells ==
    {Cell(Some(Num(18)), Some(Num(10)), g, d, Some(Num(20))) :
        g \in {None, Some(Num(30) - 1), Some(Num(30)), Some(Num(32))},
        d \in {None, Some(0), Some(135), Some(160), Some(180)}}

Rivers == {None, Reading("0.60", "07:30", "1.10", "14:10")}

InitFormat ==
    /\ Idle
    /\ pc = "call"
    /\ residue \in {0, 135}
    /\ \E hs \in HourSeqs(FormatHours), breve \in BOOLEAN, river \in Rivers :
          \E c \in [1..Len(hs) -> FormatCells] :
             LET h == Series(739311, hs, c)
             IN args = [day_name |-> <<"Sabado", 1>>, sem |-> "verde",
                        temp |-> temp_range(h), cond |-> precip_text(h),
                        slots |-> get_slots(h, breve), river |-> river]
    /\ ret = None

CallWhatsapp ==
    /\ pc = "call"
    /\ ret' = fmt_whatsapp(args.day_name, args.sem, args.temp, args.slots,
                           args.cond, args.river)
    /\ pc' = "ret_whatsapp"
    /\ UNCHANGED <<main_vars, args, residue>>

CallTecnico ==
    /\ pc = "call"
    /\ ret' = fmt_tecnico(args.day_name, args.sem, args.temp, args.cond,
                          args.slots, args.river)
    /\ pc' = "ret_tecnico"
    /\ UNCHANGED <<main_vars, args, residue>>

SpecFormat == InitFormat /\ [][CallWhatsapp \/ CallTecnico]_vars

---------------------------------------------------------------------------
(* Properties of semaforo and stats_for_window *)

RECURSIVE SetSum(_, _)
SetSum(S, f) ==
    IF S = {} THEN 0
    ELSE LET x == CHOOSE y \in S : TRUE IN f[x][1] + SetSum(S \ {x}, f)

\* the largest present value of series f at the indices S, 0 when S is empty
SetMax(S, f) ==
    IF S = {} THEN 0 ELSE LET x == CHOOSE y \in S : \A z \in S : f[y][1] >= f[z][1] IN f[x][1]

\* the indices of h whose hour of day is in [a, b) and where series f is present
InWindow(h, a, b) == {i \in DOMAIN h.time : a <= h.time[i][4] /\ h.time[i][4] < b}
PresentIn(h, f, a, b) == {i \in InWindow(h, a, b) : h[f][i] /= None}

WindowMean(h, f, a, b) ==
    LET P == PresentIn(h, f, a, b)
    IN IF P = {} THEN 0 ELSE SetSum(P, h[f]) \div Cardinality(P)

LadderS(h) == Max2(WindowMean(h, "wind_speed_10m", 6, 12),
                   WindowMean(h, "wind_speed_10m", 12, 20))
LadderG(h) == Max2(SetMax(PresentIn(h, "wind_gusts_10m", 6, 12), h.wind_gusts_10m),
                   SetMax(PresentIn(h, "wind_gusts_10m", 12, 20), h.wind_gusts_10m))
LadderP(h) == SetMax(PresentIn(h, "precipitation_probability", 0, 24),
                     h.precipitation_probability)

\* C1: semaforo is the first-match ladder over (S, G, P): green iff
\* S <= green_max_sust, G <= green_max_gust and P < 50; otherwise yellow iff
\* S <= yellow_max_sust, G <= yellow_max_gust and P < 70; otherwise red, with
\* S the larger mean speed and G the larger gust of the windows 06-12 and
\* 12-20, and P the largest present rain probability of the day (0 if none).
C1_SemaforoLadder ==
    pc = "ret" =>
        LET h == args.h
            thr == args.thr
        IN ret = IF LadderS(h) <= thr.green_max_sust /\ LadderG(h) <= thr.green_max_gust
                    /\ LadderP(h) < Num(50)
                 THEN "verde"
                 ELSE IF LadderS(h) <= thr.yellow_max_sust
                         /\ LadderG(h) <= thr.yellow_max_gust /\ LadderP(h) < Num(70)
                 THEN "amarillo"
                 ELSE "rojo"

\* a day within the green wind limits classified yellow for its rain alone
C1_Witness ==
    /\ pc = "ret"
    /\ ret = "amarillo"
    /\ LadderS(args.h) > 0
    /\ LadderS(args.h) <= args.thr.green_max_sust
    /\ LadderG(args.h) <= args.thr.green_max_gust
    /\ LadderP(args.h) = Num(50)

NoData(h) ==
    \A i \in DOMAIN h.time :
        /\ h.wind_speed_10m[i] = None
        /\ h.wind_gusts_10m[i] = None
        /\ h.precipitation_probability[i] = None

\* C10: a day slice with no hours, or with every wind and rain value absent,
\* is classified green whenever both green limits are >= 0.
C10_MissingDataGreen ==
    (pc = "ret" /\ NoData(args.h)
     /\ args.thr.green_max_sust >= 0 /\ args.thr.green_max_gust >= 0)
        => ret = "verde"

\* a day with hours in both windows and no value in any of them, classified green
C10_Witness ==
    /\ pc = "ret"
    /\ ret = "verde"
    /\ NoData(args.h)
    /\ InWindow(args.h, 6, 12) /= {}
    /\ InWindow(args.h, 12, 20) /= {}
    /\ args.thr.green_max_sust = 0

\* C3: stats_for_window selects the indices with h0 <= hour < h1; the speed is
\* the mean of the present speeds selected and the gust the maximum of the
\* present gusts selected, each 0 when none is present; with no present
\* direction the direction is 0 and its label ""; with nothing selected the
\* result is (0, 0, 0, "").
C3_WindowStats ==
    pc = "ret" =>
        LET h == args.h
            a == args.h0
            b == args.h1
        IN /\ ret.speed_avg = WindowMean(h, "wind_speed_10m", a, b)
           /\ ret.gust_max = SetMax(PresentIn(h, "wind_gusts_10m", a, b), h.wind_gusts_10m)
           /\ PresentIn(h, "wind_direction_10m", a, b) = {}
                 => ret.dir_avg_deg = 0 /\ ret.dir_avg_txt = ""
           /\ PresentIn(h, "wind_direction_10m", a, b) /= {} => ret.dir_avg_txt /= ""
           /\ InWindow(h, a, b) = {} => ret = SlotStats(0, 0, 0, "")

\* a window with an hour selected and the hour at its upper limit left out,
\* whose direction is absent while speed and gust are present
C3_Witness ==
    /\ pc = "ret"
    /\ InWindow(args.h, args.h0, args.h1) /= {}
    /\ \E i \in DOMAIN args.h.time :
          /\ args.h.time[i][4] = args.h1
          /\ args.h.wind_speed_10m[i] /= None
          /\ args.h.wind_direction_10m[i] /= None
    /\ PresentIn(args.h, "wind_direction_10m", args.h0, args.h1) = {}
    /\ ret.dir_avg_txt = ""
    /\ ret.dir_avg_deg = 0
    /\ ret.speed_avg = Num(10)
    /\ ret.gust_max = Num(22)

---------------------------------------------------------------------------
(* Properties of aggregate_models *)

FieldSet == {fields[j] : j \in 1..Len(fields)}

\* the models with a value of field f at index i
Reporting(md, f, i) == {m \in DOMAIN md : md[m].hourly[f][i] /= None}

\* the value of the only model reporting field f at index i
OnlyValue(md, f, i) ==
    LET m == CHOOSE x \in Reporting(md, f, i) : TRUE IN md[m].hourly[f][i][1]

\* C2 as stated: where every model is absent the merged value is absent, and
\* where exactly one model has a value the merged value is that value
\* unchanged, for every field, wind direction included, for every direction
\* in 0..360.
C2_SingleValueUnchanged ==
    pc = "ret" =>
        \A f \in FieldSet : \A i \in DOMAIN ret.time :
            LET md == args.models_data
            IN /\ Reporting(md, f, i) = {} => ret[f][i] = None
               /\ Cardinality(Reporting(md, f, i)) = 1
                     => ret[f][i] = Some(OnlyValue(md, f, i))

\* C2, amended: as above, except that a single wind direction is returned
\* reduced modulo 360, so that 360 becomes 0.
C2_SingleValueModulo ==
    pc = "ret" =>
        \A f \in FieldSet : \A i \in DOMAIN ret.time :
            LET md == args.models_data
            IN /\ Reporting(md, f, i) = {} => ret[f][i] = None
               /\ Cardinality(Reporting(md, f, i)) = 1
                     => ret[f][i] = IF f = "wind_direction_10m"
                                    THEN Some(OnlyValue(md, f, i) % 360)
                                    ELSE Some(OnlyValue(md, f, i))

\* two models, one of them absent throughout an index where the other reports
\* a speed and the direction 360, and an index where both are absent
C2_Witness ==
    /\ pc = "ret"
    /\ Len(args.models_data) = 2
    /\ \E i \in DOMAIN ret.time :
          /\ \A f \in FieldSet : Cardinality(Reporting(args.models_data, f, i)) = 1
          /\ ret.wind_speed_10m[i] = Some(Num(30))
          /\ OnlyValue(args.models_data, "wind_direction_10m", i) = 360
          /\ ret.wind_direction_10m[i] = Some(0)
    /\ \E i \in DOMAIN ret.time :
          \A f \in FieldSet : Reporting(args.models_data, f, i) = {} /\ ret[f][i] = None

---------------------------------------------------------------------------
(* Properties of day_slice *)

\* the indices of the series whose timestamp lies on date d
OnDate(h, d) == {i \in DOMAIN h.time : SubSeq(h.time[i], 1, 3) = isoformat(d)}

\* C9: day_slice returns exactly the entries whose timestamp lies on d, in
\* their original order, each field value at the position of its timestamp,
\* all sequences of the result of one length.
C9_DaySlice ==
    pc = "ret" =>
        LET h   == args.hourly
            idx == SortedSeq(OnDate(h, args.d))
        IN /\ DOMAIN ret = {"time"} \cup FieldSet
           /\ \A k \in DOMAIN ret : Len(ret[k]) = Len(idx)
           /\ \A k \in DOMAIN ret : \A j \in 1..Len(idx) : ret[k][j] = h[k][idx[j]]

\* a slice that keeps midnight and 23:00 of its date, between entries of the
\* day before and the day after
C9_Witness ==
    /\ pc = "ret"
    /\ Len(ret.time) = 3
    /\ ret.time[1][4] = 0
    /\ ret.time[3][4] = 23
    /\ \E i \in DOMAIN args.hourly.time : args.hourly.time[i] = isoformat(args.d - 1) \o <<23, 0>>
    /\ \E i \in DOMAIN args.hourly.time : args.hourly.time[i] = isoformat(args.d + 1) \o <<0, 0>>
    /\ ret.wind_speed_10m[1] /= ret.wind_speed_10m[2]

---------------------------------------------------------------------------
(* Properties of the report formatter *)

Sudestada == "Posible sudestada por la tarde (SE) con aumento del nivel y deriva."
Habitual == "Rotacion y rafagas dentro de parametros habituales."

\* C8: fmt_tecnico selects the storm-surge note iff some window's direction
\* label is SE or SSE and the largest gust of the windows is >= 30, and the
\* routine note in every other case.
C8_TechnicalNote ==
    pc = "ret_tecnico" =>
        LET slots == args.slots
            surge == /\ \E k \in DOMAIN slots : slots[k].dir_avg_txt \in {"SE", "SSE"}
                     /\ \E k \in DOMAIN slots : slots[k].gust_max >= Num(30)
        IN ret.nota = IF surge THEN Sudestada ELSE Habitual

\* the storm-surge note selected with a gust of exactly 30 in one window, a
\* label SSE in another and an empty label in a third
C8_Witness ==
    /\ pc = "ret_tecnico"
    /\ ret.nota = Sudestada
    /\ \A k \in DOMAIN args.slots : args.slots[k].gust_max <= Num(30)
    /\ \E k \in DOMAIN args.slots :
          args.slots[k].dir_avg_txt = "SSE" /\ args.slots[k].gust_max < Num(30)
    /\ \E k \in DOMAIN args.slots : args.slots[k].dir_avg_txt = ""

Placeholder == [min |-> "__", t_min |-> "__:__", max |-> "__", t_max |-> "__:__"]

\* the river reading a technical report shows: the level and time of each row
TecnicoShown(rio) ==
    IF Len(rio.filas) = 2
    THEN [min |-> rio.filas[1].nivel, t_min |-> rio.filas[1].hora,
          max |-> rio.filas[2].nivel, t_max |-> rio.filas[2].hora]
    ELSE <<>>

---------------------------------------------------------------------------
(* Properties of main() *)

\* the first Saturday on or after the reference date
FirstSaturday == CHOOSE d \in today..(today + 6) : weekday(d) = 5

MondayIsHoliday ==
    /\ "feriados" \in DOMAIN cfg
    /\ isoformat(FirstSaturday + 2) \in cfg.feriados

\* the days a run covers, with the names of their sections
Covered ==
    <<FirstSaturday, FirstSaturday + 1>>
    \o (IF MondayIsHoliday THEN <<FirstSaturday + 2>> ELSE <<>>)
DayNames == <<"Sabado", "Domingo", "Lunes">>

\* C4: a run covers Saturday, Sunday and, iff Saturday + 2 is in the holiday
\* list, Monday, Saturday being the first Saturday on or after the reference
\* date; every fetch spans Saturday to the last covered day, and both
\* documents hold one section per covered day, in that order.
C4_CoveredDays ==
    pc = "done" =>
        /\ DOMAIN ds = {"sab", "dom"} \cup (IF MondayIsHoliday THEN {"fer"} ELSE {})
        /\ \A g \in DOMAIN gets :
              /\ gets[g].start_date = isoformat(FirstSaturday)
              /\ gets[g].end_date = isoformat(Covered[Len(Covered)])
        /\ \A doc \in {whatsapp_txt[1], tecnico_txt[1]} : doc.tag = isoformat(FirstSaturday)
        /\ Len(whatsapp_txt[1].secciones) = Len(Covered)
        /\ Len(tecnico_txt[1].secciones) = Len(Covered)
        /\ \A j \in 1..Len(Covered) :
              /\ whatsapp_txt[1].secciones[j].dia = <<DayNames[j], isoformat(Covered[j])[3]>>
              /\ tecnico_txt[1].secciones[j].dia = <<DayNames[j], isoformat(Covered[j])[3]>>
              /\ whatsapp_txt[1].secciones[j].temp
                    = temp_range(day_slice(hourly, Covered[j]))

\* a run started on a Saturday whose Monday is a holiday, finished with two
\* fetches and three sections, the third for Monday the 3rd
C4_Witness ==
    /\ pc = "done"
    /\ weekday(today) = 5
    /\ sab = today
    /\ MondayIsHoliday
    /\ Len(whatsapp_txt[1].secciones) = 3
    /\ whatsapp_txt[1].secciones[3].dia = <<"Lunes", 3>>
    /\ Len(gets) = 2

\* the concise section of day dd of date d rendered from the 2-window statistics
ConciseSection(name, d, dd) ==
    fmt_whatsapp(<<name, day(d)>>, dd.sem, dd.temp, dd.sb, dd.cond, dd.river)

\* C5: the concise report is rendered from the 2-window slot statistics
\* (06-12, 12-20) and the technical report from the 3-window ones
\* (06-11, 11-14, 14-20).
C5_ConciseFromTwoWindows ==
    pc = "done" =>
        /\ whatsapp_txt[1].secciones[1] = ConciseSection("Sabado", sab, ds.sab)
        /\ whatsapp_txt[1].secciones[2] = ConciseSection("Domingo", dom, ds.dom)
        /\ \A j \in DOMAIN tecnico_txt[1].secciones :
              Len(tecnico_txt[1].secciones[j].viento) = 3

AllFetched ==
    /\ DOMAIN cfg /= {}
    /\ Len(gets) = Len(cfg.models)
    /\ \A g \in DOMAIN gets : gets[g].status = "ok"

\* C7: no output file is written unless the configuration was loaded and the
\* fetch of every configured model succeeded; a run that aborted has written
\* neither document, and no run ends with only one of the two written.
C7_NoOutputOnError ==
    /\ (whatsapp_txt /= None \/ tecnico_txt /= None) => AllFetched
    /\ pc = "aborted" => whatsapp_txt = None /\ tecnico_txt = None
    /\ pc \in {"done", "aborted"} => (whatsapp_txt = None <=> tecnico_txt = None)

\* a run aborted by the failed fetch of its second model, with nothing written
C7_Witness ==
    /\ pc = "aborted"
    /\ Len(models) = 1
    /\ Len(gets) = 2
    /\ gets[1].status = "ok"
    /\ gets[2].status = "error"
    /\ whatsapp_txt = None
    /\ tecnico_txt = None

=============================================================================
